---- MODULE Spec2Model ----
(***************************************************************************)
(* Model of extractor.py: the multi-language Tree-sitter fact extractor.   *)
(*                                                                         *)
(* The pipeline of main() is a state machine: the changeset is resolved    *)
(* with `git diff`, every discovered file is submitted to a thread pool,   *)
(* the workers run collect_facts (parser_for, parse, queries, fact         *)
(* assembly), main gathers the per-file lists in submission order into     *)
(* full and delta, and write_json writes both.                             *)
(*                                                                         *)
(* The parsing engine is an external collaborator: a file's content is     *)
(* given as the syntax tree the engine returns for it (named nodes, in     *)
(* document order), and the queries of LANG_QUERIES are evaluated over     *)
(* that tree as patterns (parent kind, field, node kind, text predicate).  *)
(* Queries are taken to compile for the grammar they are written for.      *)
(*                                                                         *)
(* Text is a sequence of one-character strings so that decode, strip and   *)
(* the test-name predicates are computed character by character; Str       *)
(* joins such a sequence into a string.  A path is an anchor and a         *)
(* sequence of parts, each part split in stem and suffix as pathlib does.  *)
(***************************************************************************)
EXTENDS Integers, Sequences, FiniteSets, TLC

\* ───────────── generic helpers ─────────────

RECURSIVE Str(_)
\* the string spelled by a sequence of one-character strings
Str(cs) == IF cs = <<>> THEN "" ELSE Head(cs) \o Str(Tail(cs))

RECURSIVE Flatten(_)
\* concatenation of a sequence of sequences (list.extend over each)
Flatten(ss) == IF ss = <<>> THEN <<>> ELSE Head(ss) \o Flatten(Tail(ss))

RECURSIVE SortedIndices(_)
\* the members of a finite set of naturals, ascending
SortedIndices(S) ==
    IF S = {} THEN <<>>
    ELSE LET m == CHOOSE x \in S : \A y \in S : x <= y
         IN  <<m>> \o SortedIndices(S \ {m})

Range(s) == {s[i] : i \in DOMAIN s}

\* ───────────── bounds ─────────────

MaxFiles == 2
MaxWorkers == 2
MaxNodes == 3

\* ───────────── Language configuration ─────────────

EXT_TO_LANG ==
    ".py" :> "python" @@ ".js" :> "javascript" @@ ".ts" :> "typescript" @@
    ".tsx" :> "tsx" @@ ".go" :> "go"

\* A query pattern: the captured node has kind `node`; when parent # ""
\* its parent has kind `parent`; when field # "" it is that field of the
\* parent; when match # "" the captured text satisfies that predicate.
Pat(parent, field, node, match) ==
    [parent |-> parent, field |-> field, node |-> node, match |-> match]

FACT_TYPES ==
    <<"symbol", "import", "decorator", "call", "annotation", "docstring", "test_case">>

JsLikeQueries(withAnnotation) ==
    [symbol |-> {Pat("function_declaration", "name", "identifier", ""),
                 Pat("class_declaration", "name", "identifier", "")},
     import |-> {Pat("import_statement", "source", "string", "")},
     decorator |-> {Pat("decorator", "name", "identifier", "")},
     call |-> {Pat("call_expression", "function", "identifier", "")},
     annotation |-> IF withAnnotation
                    THEN {Pat("type_annotation", "", "predefined_type", "")}
                    ELSE {},
     docstring |-> {Pat("", "", "comment", "")},
     test_case |-> {Pat("call_expression", "function", "identifier", "^(it|test)$")}]

\* LANG_QUERIES[lang][kind]: the patterns of the query; {} where the
\* language has no query for the kind (the key is absent in the source).
LANG_QUERIES ==
    [python |->
        [symbol |-> {Pat("function_definition", "name", "identifier", ""),
                     Pat("class_definition", "name", "identifier", "")},
         import |-> {Pat("import_statement", "name", "dotted_name", ""),
                     Pat("from_import_statement", "module_name", "dotted_name", "")},
         decorator |-> {Pat("decorator", "name", "identifier", "")},
         call |-> {Pat("call", "function", "identifier", "")},
         annotation |-> {Pat("type_hint", "", "identifier", "")},
         docstring |-> {Pat("expression_statement", "", "string", "")},
         test_case |-> {Pat("function_definition", "name", "identifier", "^test_")}],
     javascript |-> JsLikeQueries(FALSE),
     typescript |-> JsLikeQueries(TRUE),
     tsx |-> JsLikeQueries(TRUE),
     go |->
        [symbol |-> {Pat("function_declaration", "name", "identifier", ""),
                     Pat("method_declaration", "name", "field_identifier", ""),
                     Pat("type_spec", "name", "type_identifier", "")},
         import |-> {Pat("import_spec", "path", "interpreted_string_literal", "")},
         decorator |-> {},
         call |-> {Pat("call_expression", "function", "identifier", "")},
         annotation |-> {Pat("type_spec", "name", "type_identifier", "")},
         docstring |-> {Pat("", "", "comment", "")},
         test_case |-> {Pat("function_declaration", "name", "identifier", "^Test")}]]

BRANCHING_TYPES ==
    [python |-> {"if_statement", "for_statement", "while_statement",
                 "try_statement", "with_statement", "match_statement"},
     javascript |-> {"if_statement", "for_statement", "while_statement",
                     "do_statement", "switch_statement"},
     typescript |-> {"if_statement", "for_statement", "while_statement",
                     "do_statement", "switch_statement"},
     tsx |-> {"if_statement", "for_statement", "while_statement",
              "do_statement", "switch_statement"},
     go |-> {"if_statement", "for_statement", "switch_statement", "select_statement"}]

\* ───────────── Paths (pathlib.PurePosixPath) ─────────────

Part(stem, suffix) == [stem |-> stem, suffix |-> suffix]

PartName(part) == part.stem \o part.suffix

RECURSIVE JoinNames(_, _)
\* the names of the parts joined by a separator
JoinNames(parts, sep) ==
    IF parts = <<>> THEN ""
    ELSE IF Len(parts) = 1 THEN PartName(parts[1])
    ELSE PartName(parts[1]) \o sep \o JoinNames(Tail(parts), sep)

\* str(path) and path.as_posix()
PathStr(path) == path.anchor \o JoinNames(path.parts, "/")

\* root / f
PathJoin(root, rel) == [anchor |-> root.anchor, parts |-> root.parts \o rel]

\* path.name, path.parent, path.with_suffix("")
PathName(path) == PartName(path.parts[Len(path.parts)])

PathParent(path) ==
    [anchor |-> path.anchor, parts |-> SubSeq(path.parts, 1, Len(path.parts) - 1)]

\* path.with_suffix(""): raises ValueError on a path whose name is empty
\* ("/" or "."), else the path with the suffix of its last part dropped
WithoutSuffix(path) ==
    IF path.parts = <<>>
    THEN [raised |-> TRUE, path |-> path]
    ELSE [raised |-> FALSE,
          path |-> [anchor |-> path.anchor,
                    parts |-> [i \in DOMAIN path.parts |->
                                  IF i = Len(path.parts)
                                  THEN Part(path.parts[i].stem, "")
                                  ELSE path.parts[i]]]]

\* as_posix().replace("/", "."): the anchor "/" becomes a leading "."
DottedPosix(path) ==
    (IF path.anchor = "/" THEN "." ELSE "") \o JoinNames(path.parts, ".")

\* to_module: the module name, or raised when with_suffix raises (an
\* __init__.py that sits in "/" or in ".")
to_module(path, lang_id) ==
    LET p == IF lang_id = "python" /\ PathName(path) = "__init__.py"
             THEN PathParent(path) ELSE path
        stripped == WithoutSuffix(p)
    IN  IF stripped.raised
        THEN [raised |-> TRUE, value |-> ""]
        ELSE [raised |-> FALSE, value |-> DottedPosix(stripped.path)]

\* ───────────── Text ─────────────

\* a byte that is not valid UTF-8: bytes.decode() raises on it
INVALID_BYTE == "<FF>"

Decodable(bytes) == \A i \in DOMAIN bytes : bytes[i] # INVALID_BYTE

RECURSIVE LStrip(_, _)
LStrip(cs, chars) ==
    IF cs # <<>> /\ Head(cs) \in chars THEN LStrip(Tail(cs), chars) ELSE cs

RECURSIVE RStrip(_, _)
RStrip(cs, chars) ==
    IF cs # <<>> /\ cs[Len(cs)] \in chars
    THEN RStrip(SubSeq(cs, 1, Len(cs) - 1), chars) ELSE cs

\* str.strip("\"'")
StripQuotes(cs) == RStrip(LStrip(cs, {"\"", "'"}), {"\"", "'"})

HasPrefix(cs, pre) == Len(cs) >= Len(pre) /\ SubSeq(cs, 1, Len(pre)) = pre

\* the #match? predicates of the test_case queries
Matches(regex, cs) ==
    CASE regex = "" -> TRUE
      [] regex = "^test_" -> HasPrefix(cs, <<"t", "e", "s", "t", "_">>)
      [] regex = "^Test" -> HasPrefix(cs, <<"T", "e", "s", "t">>)
      [] regex = "^(it|test)$" -> cs \in {<<"i", "t">>, <<"t", "e", "s", "t">>}

\* ───────────── Syntax trees ─────────────

\* A tree is the sequence of its nodes in document order; node 1 is the
\* root, parent = 0 stands for None.  row_start/row_end are
\* start_point[0]/end_point[0].
Node(type, parent, field, bytes, row_start, row_end) ==
    [type |-> type, parent |-> parent, field |-> field, bytes |-> bytes,
     row_start |-> row_start, row_end |-> row_end]

\* n.children, in order
Children(tree, n) == SortedIndices({c \in DOMAIN tree : tree[c].parent = n})

\* query.captures(tree.root_node): the captured nodes in document order
\* (the patterns of one query differ in parent kind or node kind, so no
\* node is captured by two of them)
Captures(tree, patterns) ==
    SortedIndices({n \in DOMAIN tree :
        \E pat \in patterns :
            /\ tree[n].type = pat.node
            /\ pat.parent # "" =>
                  /\ tree[n].parent # 0
                  /\ tree[tree[n].parent].type = pat.parent
            /\ pat.field # "" => tree[n].field = pat.field
            /\ Matches(pat.match, tree[n].bytes)})

\* ───────────── Complexity ─────────────

Branching(lang_id) ==
    IF lang_id \in DOMAIN BRANCHING_TYPES THEN BRANCHING_TYPES[lang_id] ELSE {}

\* a slip that forgets stack.extend(n.children)
CycStepNoDescent(tree, branching, st) ==
    LET n == st.stack[Len(st.stack)]
    IN  [stack |-> SubSeq(st.stack, 1, Len(st.stack) - 1),
         score |-> IF tree[n].type \in branching THEN st.score + 1 ELSE st.score]

\* one iteration of the while loop of cyclomatic: pop, test, extend
CycStep(tree, branching, st) ==
    LET n == st.stack[Len(st.stack)]
    IN  [stack |-> SubSeq(st.stack, 1, Len(st.stack) - 1) \o Children(tree, n),
         score |-> IF tree[n].type \in branching THEN st.score + 1 ELSE st.score]

CycInit(node) == [stack |-> <<node>>, score |-> 1]

RECURSIVE CycRun(_, _, _)
CycRun(tree, branching, st) ==
    IF st.stack = <<>> THEN st.score
    ELSE CycRun(tree, branching, CycStep(tree, branching, st))

cyclomatic(tree, node, lang_id) == CycRun(tree, Branching(lang_id), CycInit(node))

\* ───────────── Identifiers ─────────────

\* sha10 of every canonical string the scanned tree gives rise to
SHA10_TABLE ==
    "call|.repo.pkg.mod|foo" :>
        <<"8", "f", "6", "3", "e", "8", "8", "d", "f", "3">> @@
    "call|.repo.pkg|foo" :>
        <<"e", "7", "1", "0", "a", "9", "7", "8", "3", "9">> @@
    "symbol|.repo.pkg.mod.test_foo|/repo/pkg/mod.py" :>
        <<"8", "d", "7", "9", "1", "d", "0", "e", "a", "2">> @@
    "symbol|.repo.pkg.run|/repo/pkg/__init__.py" :>
        <<"1", "9", "b", "a", "1", "f", "9", "8", "8", "3">> @@
    "symbol|.repo.util.helper|/repo/util.go" :>
        <<"f", "c", "0", "9", "8", "3", "3", "f", "a", "7">> @@
    "test_case|.repo.pkg.mod.test_foo|/repo/pkg/mod.py" :>
        <<"a", "2", "5", "5", "8", "8", "3", "a", "d", "4">>

\* hashlib.sha1(text.encode()).hexdigest()[:10], as ten hex characters
sha10(text) == SHA10_TABLE[text]

CU == <<"C", "U", "-">>

\* ───────────── Extraction ─────────────

\* A fact is a Python dict: its (key, value) pairs in insertion order.
FactGet(fact, key) ==
    LET i == CHOOSE j \in DOMAIN fact : fact[j][1] = key IN fact[i][2]

FactHas(fact, key) == \E j \in DOMAIN fact : fact[j][1] = key

\* the fact appended for one capture of the query of fact_type
FactOf(fact_type, path, lang_id, tree, n) ==
    LET node == tree[n]
        text_val == Str(StripQuotes(node.bytes))
        module_name == to_module(path, lang_id).value
        fq == IF text_val # "" THEN module_name \o "." \o text_val ELSE module_name
        file == PathStr(path)
        tail == << <<"lang", lang_id>>, <<"file", file>>,
                   <<"line_start", node.row_start + 1>>,
                   <<"line_end", node.row_end + 1>> >>
    IN  CASE fact_type = "symbol" ->
              << <<"id", CU \o sha10("symbol|" \o fq \o "|" \o file)>>,
                 <<"kind", "symbol">>,
                 <<"symbol", fq>>,
                 <<"signature", "()">>,
                 <<"lang", lang_id>>,
                 <<"complexity",
                   cyclomatic(tree, IF node.parent # 0 THEN node.parent ELSE n, lang_id)>>,
                 <<"file", file>>,
                 <<"line_start", node.row_start + 1>>,
                 <<"line_end", node.row_end + 1>> >>
          [] fact_type = "import" ->
              << <<"id", CU \o sha10("import|" \o module_name \o "|" \o text_val)>>,
                 <<"kind", "import">>,
                 <<"module", module_name>>,
                 <<"imports", text_val>> >> \o tail
          [] fact_type = "decorator" ->
              << <<"id", CU \o sha10("decorator|" \o module_name \o "|" \o text_val)>>,
                 <<"kind", "decorator">>,
                 <<"symbol", module_name>>,
                 <<"decorator", text_val>> >> \o tail
          [] fact_type = "call" ->
              << <<"id", CU \o sha10("call|" \o module_name \o "|" \o text_val)>>,
                 <<"kind", "call">>,
                 <<"caller_module", module_name>>,
                 <<"callee", text_val>> >> \o tail
          [] fact_type = "annotation" ->
              << <<"id", CU \o sha10("annotation|" \o module_name \o "|" \o text_val)>>,
                 <<"kind", "annotation">>,
                 <<"symbol", module_name>>,
                 <<"annotation", text_val>> >> \o tail
          [] fact_type = "docstring" ->
              << <<"id", CU \o sha10("docstring|" \o module_name \o "|" \o text_val)>>,
                 <<"kind", "docstring">>,
                 <<"symbol", module_name>>,
                 <<"doc", text_val>> >> \o tail
          [] fact_type = "test_case" ->
              << <<"id", CU \o sha10("test_case|" \o fq \o "|" \o file)>>,
                 <<"kind", "test_case">>,
                 <<"symbol", fq>> >> \o tail

\* the captures of every query of the language, in the order the loops
\* of collect_facts meet them: <<fact_type, node>>
AllCaptures(lang_id, tree) ==
    Flatten([k \in DOMAIN FACT_TYPES |->
        LET caps == Captures(tree, LANG_QUERIES[lang_id][FACT_TYPES[k]])
        IN  [c \in DOMAIN caps |-> <<FACT_TYPES[k], caps[c]>>]])

\* collect_facts after parser_for returned: raised when a captured span
\* does not decode or to_module raises for a capture, else the list of facts
collect_facts(path, lang_id, tree) ==
    LET caps == AllCaptures(lang_id, tree)
    IN  IF \/ \E c \in DOMAIN caps : ~Decodable(tree[caps[c][2]].bytes)
           \/ caps # <<>> /\ to_module(path, lang_id).raised
        THEN [raised |-> TRUE, facts |-> <<>>]
        ELSE [raised |-> FALSE,
              facts |-> [c \in DOMAIN caps |->
                            FactOf(caps[c][1], path, lang_id, tree, caps[c][2])]]

\* ───────────── Inputs: the scanned tree ─────────────

\* pathlib.Path(".").resolve()
Root == [anchor |-> "/", parts |-> <<Part("repo", "")>>]

\* the source files a run may find, relative to the root
PkgModPy == <<Part("pkg", ""), Part("mod", ".py")>>

PkgModJs == <<Part("pkg", ""), Part("mod", ".js")>>

PkgInitPy == <<Part("pkg", ""), Part("__init__", ".py")>>

UtilGo == <<Part("util", ".go")>>

SourceUniverse == {PkgModPy, PkgModJs, PkgInitPy, UtilGo}

\* pkg/mod.py:
\*   def test_foo(): pass
\*   foo()
TreeModPy ==
    << Node("module", 0, "", <<>>, 0, 2),
       Node("function_definition", 1, "", <<>>, 0, 0),
       Node("identifier", 2, "name", <<"t", "e", "s", "t", "_", "f", "o", "o">>, 0, 0),
       Node("parameters", 2, "parameters", <<>>, 0, 0),
       Node("block", 2, "body", <<>>, 0, 0),
       Node("pass_statement", 5, "", <<>>, 0, 0),
       Node("expression_statement", 1, "", <<>>, 1, 1),
       Node("call", 7, "", <<>>, 1, 1),
       Node("identifier", 8, "function", <<"f", "o", "o">>, 1, 1),
       Node("argument_list", 8, "arguments", <<>>, 1, 1) >>

\* pkg/mod.js:
\*   foo();
TreeModJs ==
    << Node("program", 0, "", <<>>, 0, 1),
       Node("expression_statement", 1, "", <<>>, 0, 0),
       Node("call_expression", 2, "", <<>>, 0, 0),
       Node("identifier", 3, "function", <<"f", "o", "o">>, 0, 0),
       Node("arguments", 3, "arguments", <<>>, 0, 0) >>

\* pkg/__init__.py:
\*   def run():
\*       if x:
\*           foo()
\*       foo()
TreeInitPy ==
    << Node("module", 0, "", <<>>, 0, 4),
       Node("function_definition", 1, "", <<>>, 0, 3),
       Node("identifier", 2, "name", <<"r", "u", "n">>, 0, 0),
       Node("parameters", 2, "parameters", <<>>, 0, 0),
       Node("block", 2, "body", <<>>, 1, 3),
       Node("if_statement", 5, "", <<>>, 1, 2),
       Node("identifier", 6, "condition", <<"x">>, 1, 1),
       Node("block", 6, "consequence", <<>>, 2, 2),
       Node("expression_statement", 8, "", <<>>, 2, 2),
       Node("call", 9, "", <<>>, 2, 2),
       Node("identifier", 10, "function", <<"f", "o", "o">>, 2, 2),
       Node("argument_list", 10, "arguments", <<>>, 2, 2),
       Node("expression_statement", 5, "", <<>>, 3, 3),
       Node("call", 13, "", <<>>, 3, 3),
       Node("identifier", 14, "function", <<"f", "o", "o">>, 3, 3),
       Node("argument_list", 14, "arguments", <<>>, 3, 3) >>

\* util.go, whose comment holds a byte that is not UTF-8:
\*   package util
\*   // \xff
\*   func helper() {}
TreeUtilGo ==
    << Node("source_file", 0, "", <<>>, 0, 3),
       Node("package_clause", 1, "", <<>>, 0, 0),
       Node("package_identifier", 2, "", <<"u", "t", "i", "l">>, 0, 0),
       Node("comment", 1, "", <<"/", "/", " ", INVALID_BYTE>>, 1, 1),
       Node("function_declaration", 1, "", <<>>, 2, 2),
       Node("identifier", 5, "name", <<"h", "e", "l", "p", "e", "r">>, 2, 2),
       Node("parameter_list", 5, "parameters", <<>>, 2, 2),
       Node("block", 5, "body", <<>>, 2, 2) >>

\* parser.parse(path.read_bytes()) for a file of the universe
TreeOf(rel) ==
    CASE rel = PkgModPy -> TreeModPy
      [] rel = PkgModJs -> TreeModJs
      [] rel = PkgInitPy -> TreeInitPy
      [] rel = UtilGo -> TreeUtilGo

\* pathlib.Path(text) for the text of a path of the scanned tree
PathOfStr(text) ==
    CHOOSE p \in {PathJoin(Root, rel) : rel \in SourceUniverse} : PathStr(p) = text

LangOf(rel) == EXT_TO_LANG[rel[Len(rel)].suffix]

Langs == {EXT_TO_LANG[e] : e \in DOMAIN EXT_TO_LANG}

\* ───────────── Output ─────────────

\* ord(c) of the characters an id is made of
Ord(c) ==
    CASE c = "-" -> 45
      [] c = "0" -> 48 [] c = "1" -> 49 [] c = "2" -> 50 [] c = "3" -> 51
      [] c = "4" -> 52 [] c = "5" -> 53 [] c = "6" -> 54 [] c = "7" -> 55
      [] c = "8" -> 56 [] c = "9" -> 57
      [] c = "C" -> 67 [] c = "U" -> 85
      [] c = "a" -> 97 [] c = "b" -> 98 [] c = "c" -> 99 [] c = "d" -> 100
      [] c = "e" -> 101 [] c = "f" -> 102

RECURSIVE StrLess(_, _)
\* a < b for Python strings: lexicographic by code point
StrLess(a, b) ==
    IF b = <<>> THEN FALSE
    ELSE IF a = <<>> THEN TRUE
    ELSE IF Ord(Head(a)) # Ord(Head(b)) THEN Ord(Head(a)) < Ord(Head(b))
    ELSE StrLess(Tail(a), Tail(b))

RECURSIVE InsertById(_, _)
\* obj placed after every element whose id is not greater (stable)
InsertById(sorted, obj) ==
    IF sorted = <<>> THEN <<obj>>
    ELSE IF StrLess(FactGet(obj, "id"), FactGet(Head(sorted), "id"))
         THEN <<obj>> \o sorted
         ELSE <<Head(sorted)>> \o InsertById(Tail(sorted), obj)

\* a slip that leaves the list in the order it was collected
SortByIdUnsorted(objs) == objs

RECURSIVE SortById(_)
\* sorted(objs, key=lambda o: o["id"])
SortById(objs) ==
    IF objs = <<>> THEN <<>>
    ELSE InsertById(SortById(SubSeq(objs, 1, Len(objs) - 1)), objs[Len(objs)])

\* the keys of the facts, as Python orders the strings
SORTED_KEYS ==
    <<"annotation", "callee", "caller_module", "complexity", "decorator", "doc",
      "file", "id", "imports", "kind", "lang", "line_end", "line_start",
      "module", "signature", "symbol">>

KeyRank(key) == CHOOSE i \in DOMAIN SORTED_KEYS : SORTED_KEYS[i] = key

\* the items of an object as json.dump(..., sort_keys=True) writes them
SortKeys(obj) ==
    LET ranks == SortedIndices({KeyRank(obj[i][1]) : i \in DOMAIN obj})
    IN  [k \in DOMAIN ranks |-> <<SORTED_KEYS[ranks[k]], FactGet(obj, SORTED_KEYS[ranks[k]])>>]

\* the objects of the file write_json writes, in order, each with its
\* items in the order they are written
write_json(objs, jsonl) ==
    IF jsonl
    THEN [written |-> TRUE, jsonl |-> TRUE, objs |-> SortById(objs)]
    ELSE [written |-> TRUE, jsonl |-> FALSE,
          objs |-> LET sorted == SortById(objs)
                   IN  [i \in DOMAIN sorted |-> SortKeys(sorted[i])]]

\* an output path nothing was written to
NotWritten == [written |-> FALSE, jsonl |-> FALSE, objs |-> <<>>]

\* ───────────── State ─────────────

VARIABLES
    scanned,    \* the source files under the root: what iter_source_files will yield
    files,      \* the paths iter_source_files has yielded, in the order it yielded them
    args,       \* the parsed command line: jsonl, workers
    pc,         \* where main is
    status,     \* the exit status of the process, -1 while it runs
    git,        \* the outcome of `git diff`
    changed,    \* changed_files
    queue,      \* the work queue of the pool: tasks submitted and not taken
    fut,        \* the future of each task
    wk,         \* the worker threads
    cache,      \* the lru_cache of parser_for: language -> instance, 0 absent
    built,      \* how many times get_parser built an engine, per language
    missing,    \* the languages get_parser was found to have no grammar for
    next,       \* the task whose result main waits for
    full,       \* the list full
    delta,      \* the list delta
    outFull,    \* the file at --out-full
    outDelta,   \* the file at --out-delta
    cyc         \* a run of cyclomatic: tree, language, stack, score, visits

vars == <<scanned, files, args, pc, status, git, changed, queue, fut, wk, cache, built,
          missing, next, full, delta, outFull, outDelta, cyc>>

pipeVars == <<scanned, files, args, pc, status, git, changed, queue, fut, wk, cache, built,
              missing, next, full, delta, outFull, outDelta>>

NTasks == Len(files)

Workers == 1..args.workers

IdleWorker == [pc |-> "idle", task |-> 0, parser |-> 0]

NoCyc == [phase |-> "none", tree |-> <<>>, lang |-> "", node |-> 0, stack |-> <<>>,
          score |-> 0, visits |-> <<>>]

\* the sequences of distinct source files of at most n paths: the orders
\* in which a directory walk may yield them
FileSeqs(n) ==
    UNION {{f \in [1..k -> SourceUniverse] : \A i, j \in 1..k : i # j => f[i] # f[j]} :
              k \in 0..n}

\* what `git diff --name-only` may print for the tree: any of its files,
\* and a path that is no source file
GitNames(fs) == fs \cup {<<Part("README", ".md")>>}

PipeInit ==
    /\ pc = "start"
    /\ status = -1
    /\ git = "pending"
    /\ changed = {}
    /\ queue = <<>>
    /\ fut = <<>>
    /\ wk = [w \in Workers |-> IdleWorker]
    /\ cache = [l \in Langs |-> 0]
    /\ built = [l \in Langs |-> 0]
    /\ missing = {}
    /\ next = 1
    /\ full = <<>>
    /\ delta = <<>>
    /\ outFull = NotWritten
    /\ outDelta = NotWritten

Init ==
    /\ scanned \in {S \in SUBSET SourceUniverse : Cardinality(S) <= MaxFiles}
    /\ files = <<>>
    /\ args \in [jsonl : BOOLEAN, workers : 1..MaxWorkers]
    /\ PipeInit
    /\ cyc = NoCyc

\* ───────────── main ─────────────

\* subprocess.check_output(diff_cmd) returns: changed_files is built;
\* full, delta = [], [] and the pool is created
ResolveChangeset ==
    /\ pc = "start"
    /\ \E names \in SUBSET GitNames(scanned) :
          changed' = {PathJoin(Root, f) : f \in names}
    /\ git' = "ok"
    /\ full' = <<>>
    /\ delta' = <<>>
    /\ pc' = "map"
    /\ UNCHANGED <<scanned, files, args, status, queue, fut, wk, cache, built, missing,
                   next, outFull, outDelta, cyc>>

\* subprocess.check_output raises (no git, no repository, bad revision):
\* nothing in main catches it
ResolveChangesetFails ==
    /\ pc = "start"
    /\ git' = "failed"
    /\ pc' = "exited"
    /\ status' = 1
    /\ UNCHANGED <<scanned, files, args, changed, queue, fut, wk, cache, built, missing,
                   next, full, delta, outFull, outDelta, cyc>>

\* pool.map builds its list of futures: iter_source_files yields the next
\* file, in whatever order the directory walk meets it, and the task for
\* it is submitted; the workers already run the tasks submitted so far
Submit ==
    /\ pc = "map"
    /\ \E rel \in scanned \ Range(files) : files' = Append(files, rel)
    /\ queue' = Append(queue, Len(files) + 1)
    /\ fut' = Append(fut, [state |-> "pending", facts |-> <<>>, parser |-> 0])
    /\ UNCHANGED <<scanned, args, pc, status, git, changed, wk, cache, built, missing,
                   next, full, delta, outFull, outDelta, cyc>>

\* iter_source_files is exhausted: pool.map returns the iterator of the
\* results and the for loop starts
MapReturns ==
    /\ pc = "map"
    /\ Range(files) = scanned
    /\ next' = 1
    /\ pc' = IF NTasks = 0 THEN "write_full" ELSE "pool"
    /\ UNCHANGED <<scanned, files, args, status, git, changed, queue, fut, wk, cache,
                   built, missing, full, delta, outFull, outDelta, cyc>>

\* a slip that takes any non-empty changeset for a match
InChangesetNonEmpty(facts, changed_files) == changed_files # {}

\* pathlib.Path(facts[0]["file"]) in changed_files
InChangeset(facts, changed_files) ==
    PathOfStr(FactGet(facts[1], "file")) \in changed_files

\* one iteration of the for loop over pool.map: the next result, in
\* submission order, is a list of facts
Collect ==
    /\ pc = "pool"
    /\ next <= NTasks
    /\ fut[next].state = "done"
    /\ LET facts == fut[next].facts
       IN  IF facts = <<>>
           THEN UNCHANGED <<full, delta>>
           ELSE /\ full' = full \o facts
                /\ delta' = IF InChangeset(facts, changed)
                            THEN delta \o facts ELSE delta
    /\ next' = next + 1
    /\ pc' = IF next = NTasks THEN "write_full" ELSE "pool"
    /\ UNCHANGED <<scanned, files, args, status, git, changed, queue, fut, wk, cache, built,
                   missing, outFull, outDelta, cyc>>

\* the next result is an exception: pool.map raises it in main, the
\* tasks not yet taken are cancelled
CollectRaises ==
    /\ pc = "pool"
    /\ next <= NTasks
    /\ fut[next].state = "raised"
    /\ fut' = [i \in DOMAIN fut |->
                 IF fut[i].state = "pending"
                 THEN [fut[i] EXCEPT !.state = "cancelled"] ELSE fut[i]]
    /\ queue' = <<>>
    /\ pc' = "aborting"
    /\ UNCHANGED <<scanned, files, args, status, git, changed, wk, cache, built, missing,
                   next, full, delta, outFull, outDelta, cyc>>

\* the with block has joined the workers: the exception leaves main
Abort ==
    /\ pc = "aborting"
    /\ \A w \in Workers : wk[w].pc = "idle"
    /\ pc' = "exited"
    /\ status' = 1
    /\ UNCHANGED <<scanned, files, args, git, changed, queue, fut, wk, cache, built, missing,
                   next, full, delta, outFull, outDelta, cyc>>

WriteFull ==
    /\ pc = "write_full"
    /\ outFull' = write_json(full, args.jsonl)
    /\ pc' = "write_delta"
    /\ UNCHANGED <<scanned, files, args, status, git, changed, queue, fut, wk, cache, built,
                   missing, next, full, delta, outDelta, cyc>>

WriteDelta ==
    /\ pc = "write_delta"
    /\ outDelta' = write_json(delta, args.jsonl)
    /\ pc' = "exited"
    /\ status' = 0
    /\ UNCHANGED <<scanned, files, args, git, changed, queue, fut, wk, cache, built, missing,
                   next, full, delta, outFull, cyc>>

\* ───────────── worker threads ─────────────

TaskLang(w) == LangOf(files[wk[w].task])

\* an idle worker takes the oldest task of the queue
TakeTask(w) ==
    /\ wk[w].pc = "idle"
    /\ queue # <<>>
    /\ wk' = [wk EXCEPT ![w] = [pc |-> "parser_for", task |-> Head(queue), parser |-> 0]]
    /\ fut' = [fut EXCEPT ![Head(queue)].state = "running"]
    /\ queue' = Tail(queue)
    /\ UNCHANGED <<scanned, files, args, pc, status, git, changed, cache, built, missing,
                   next, full, delta, outFull, outDelta, cyc>>

\* parser_for(lang_id), the lookup of the lru_cache wrapper: a hit returns
\* the cached instance, a miss goes on to call get_parser
ParserLookup(w) ==
    /\ wk[w].pc = "parser_for"
    /\ wk' = [wk EXCEPT ![w] =
                IF cache[TaskLang(w)] # 0
                THEN [@ EXCEPT !.pc = "extract", !.parser = cache[TaskLang(w)]]
                ELSE [@ EXCEPT !.pc = "get_parser"]]
    /\ UNCHANGED <<scanned, files, args, pc, status, git, changed, queue, fut, cache, built,
                   missing, next, full, delta, outFull, outDelta, cyc>>

\* get_parser(lang_id) builds an engine; the wrapper stores it in the
\* cache, over whatever is there, and returns it
GetParser(w) ==
    /\ wk[w].pc = "get_parser"
    /\ TaskLang(w) \notin missing
    /\ built' = [built EXCEPT ![TaskLang(w)] = @ + 1]
    /\ cache' = [cache EXCEPT ![TaskLang(w)] = built'[TaskLang(w)]]
    /\ wk' = [wk EXCEPT ![w] = [@ EXCEPT !.pc = "extract", !.parser = built'[TaskLang(w)]]]
    /\ UNCHANGED <<scanned, files, args, pc, status, git, changed, queue, fut, missing,
                   next, full, delta, outFull, outDelta, cyc>>

\* get_parser(lang_id) raises, the grammar cannot be loaded: the
\* exception is the result of the task
GetParserFails(w) ==
    /\ wk[w].pc = "get_parser"
    /\ built[TaskLang(w)] = 0
    /\ missing' = missing \cup {TaskLang(w)}
    /\ fut' = [fut EXCEPT ![wk[w].task].state = "raised"]
    /\ wk' = [wk EXCEPT ![w] = IdleWorker]
    /\ UNCHANGED <<scanned, files, args, pc, status, git, changed, queue, cache, built,
                   next, full, delta, outFull, outDelta, cyc>>

\* the rest of collect_facts: read, parse, run the queries, build the
\* facts; what it returns or raises is the result of the task
Extract(w) ==
    /\ wk[w].pc = "extract"
    /\ LET rel == files[wk[w].task]
           res == collect_facts(PathJoin(Root, rel), LangOf(rel), TreeOf(rel))
       IN  fut' = [fut EXCEPT ![wk[w].task] =
                      [state |-> IF res.raised THEN "raised" ELSE "done",
                       facts |-> res.facts,
                       parser |-> wk[w].parser]]
    /\ wk' = [wk EXCEPT ![w] = IdleWorker]
    /\ UNCHANGED <<scanned, files, args, pc, status, git, changed, queue, cache, built,
                   missing, next, full, delta, outFull, outDelta, cyc>>

\* ───────────── a run of cyclomatic ─────────────

CycKinds == {"if_statement", "with_statement", "block"}

\* the languages of the table and one that has no entry in BRANCHING_TYPES
CycLangs == Langs \cup {"rust"}

\* the trees of n nodes: node 1 is the root, every other node has an
\* earlier node as parent
TreesOf(n) ==
    {[i \in 1..n |-> Node(ty[i], pa[i], "", <<>>, 0, 0)] :
        ty \in [1..n -> CycKinds],
        pa \in {f \in [1..n -> 0..(n - 1)] :
                  f[1] = 0 /\ \A i \in 2..n : f[i] >= 1 /\ f[i] < i}}

CycTrees == UNION {TreesOf(n) : n \in 1..MaxNodes}

CycInputs ==
    {[phase |-> "call", tree |-> t, lang |-> l, node |-> n, stack |-> <<>>,
      score |-> 0, visits |-> [i \in DOMAIN t |-> 0]] :
        t \in CycTrees, l \in CycLangs, n \in 1..MaxNodes}

InitCyc ==
    /\ scanned = {}
    /\ files = <<>>
    /\ args = [jsonl |-> FALSE, workers |-> 1]
    /\ PipeInit
    /\ cyc \in {c \in CycInputs : c.node \in DOMAIN c.tree}

\* score = 1; stack = [node]
CycCall ==
    /\ cyc.phase = "call"
    /\ cyc' = [cyc EXCEPT !.phase = "loop",
                          !.stack = CycInit(cyc.node).stack,
                          !.score = CycInit(cyc.node).score]
    /\ UNCHANGED pipeVars

\* one iteration of the while loop
CycLoop ==
    /\ cyc.phase = "loop"
    /\ cyc.stack # <<>>
    /\ LET st == CycStep(cyc.tree, Branching(cyc.lang),
                         [stack |-> cyc.stack, score |-> cyc.score])
           n == cyc.stack[Len(cyc.stack)]
       IN  cyc' = [cyc EXCEPT !.stack = st.stack, !.score = st.score,
                              !.visits[n] = @ + 1]
    /\ UNCHANGED pipeVars

\* the stack is empty: return score
CycReturn ==
    /\ cyc.phase = "loop"
    /\ cyc.stack = <<>>
    /\ cyc' = [cyc EXCEPT !.phase = "returned"]
    /\ UNCHANGED pipeVars

\* ───────────── specifications ─────────────

Next ==
    \/ ResolveChangeset
    \/ ResolveChangesetFails
    \/ Submit
    \/ MapReturns
    \/ Collect
    \/ CollectRaises
    \/ Abort
    \/ WriteFull
    \/ WriteDelta
    \/ \E w \in Workers : TakeTask(w)
    \/ \E w \in Workers : ParserLookup(w)
    \/ \E w \in Workers : GetParser(w)
    \/ \E w \in Workers : GetParserFails(w)
    \/ \E w \in Workers : Extract(w)

Spec == Init /\ [][Next]_vars

NextCyc == CycCall \/ CycLoop \/ CycReturn

SpecCyc == InitCyc /\ [][NextCyc]_vars

\* ───────────── properties ─────────────

Exited == pc = "exited"

Done == pc = "exited" /\ status = 0

Outputs == {outFull, outDelta}

ItemsOf(obj) == Range(obj)

\* the facts of a file in a list of objects
ObjsOfFile(objs, rel) ==
    {k \in DOMAIN objs : FactGet(objs[k], "file") = PathStr(PathJoin(Root, rel))}

\* the number of lines of a file of the scanned tree
LineCount(rel) == TreeOf(rel)[1].row_end

\* the generic fact the fallback policy asks for
IsFallbackFact(obj, rel) ==
    /\ FactHas(obj, "symbol") /\ FactGet(obj, "symbol") = rel[Len(rel)].stem
    /\ FactGet(obj, "line_start") = 1
    /\ FactGet(obj, "line_end") = LineCount(rel)

\* C1 (fails on the code): when the extraction of a file raised, the run
\* still exits with status 0 and both outputs written, Full holds exactly
\* one fact for that file, the generic fallback fact, and the facts of every
\* file that was extracted.
FallbackContainment ==
    (Exited /\ git = "ok" /\ \E i \in DOMAIN fut : fut[i].state = "raised") =>
        /\ status = 0
        /\ outFull.written /\ outDelta.written
        /\ \A i \in DOMAIN fut :
              IF fut[i].state = "raised"
              THEN /\ Cardinality(ObjsOfFile(outFull.objs, files[i])) = 1
                   /\ \A k \in ObjsOfFile(outFull.objs, files[i]) :
                         IsFallbackFact(outFull.objs[k], files[i])
              ELSE /\ fut[i].state = "done"
                   /\ \A f \in Range(fut[i].facts) :
                         \E k \in DOMAIN outFull.objs : ItemsOf(outFull.objs[k]) = ItemsOf(f)

\* C2 (fails on the code): when `git diff` fails the changeset is empty and
\* the run completes: status 0, Full written with the facts of the
\* discovered files, Delta written empty.
ChangesetDegradation ==
    (Exited /\ git = "failed") =>
        /\ status = 0
        /\ changed = {}
        /\ outFull.written /\ outDelta.written
        /\ outDelta.objs = <<>>
        /\ \A rel \in scanned :
              collect_facts(PathJoin(Root, rel), LangOf(rel), TreeOf(rel)).facts # <<>>
                 => ObjsOfFile(outFull.objs, rel) # {}

\* C3: after a run that completes, every fact of Delta comes from a file of
\* the changeset and is in Full, and every fact of Full from a file of the
\* changeset is in Delta; in the lists and in the written outputs.
SubsetLaw ==
    Done =>
        /\ \A k \in DOMAIN delta :
              /\ PathOfStr(FactGet(delta[k], "file")) \in changed
              /\ \E j \in DOMAIN full : full[j] = delta[k]
        /\ \A j \in DOMAIN full :
              PathOfStr(FactGet(full[j], "file")) \in changed
                 => \E k \in DOMAIN delta : delta[k] = full[j]
        /\ \A k \in DOMAIN outDelta.objs :
              /\ PathOfStr(FactGet(outDelta.objs[k], "file")) \in changed
              /\ \E j \in DOMAIN outFull.objs : outFull.objs[j] = outDelta.objs[k]
        /\ \A j \in DOMAIN outFull.objs :
              PathOfStr(FactGet(outFull.objs[j], "file")) \in changed
                 => \E k \in DOMAIN outDelta.objs : outDelta.objs[k] = outFull.objs[j]

\* a completed run of two files, one changed and one not, with another
\* path in the changeset: Delta is a proper, non-empty part of Full
SubsetLawWitness ==
    /\ Done
    /\ Len(files) = 2
    /\ delta # <<>>
    /\ Len(delta) < Len(full)
    /\ Cardinality(changed) = 2
    /\ Len(outDelta.objs) = Len(delta)

\* C4 (fails on the code): two facts of Full with the same id are the same
\* logical fact: same kind, same fields, same file, same line span.
IdentifierUniqueness ==
    Done =>
        \A j, k \in DOMAIN full :
            FactGet(full[j], "id") = FactGet(full[k], "id")
               => ItemsOf(full[j]) = ItemsOf(full[k])

\* what a worker returns for a file whose extraction does not raise
FactsOfFile(rel) == collect_facts(PathJoin(Root, rel), LangOf(rel), TreeOf(rel)).facts

\* the lists main builds when the files are discovered in the given order
RunFull(order) == Flatten([i \in DOMAIN order |-> FactsOfFile(order[i])])

RunDelta(order, changed_files) ==
    Flatten([i \in DOMAIN order |->
        IF FactsOfFile(order[i]) # <<>> /\ InChangeset(FactsOfFile(order[i]), changed_files)
        THEN FactsOfFile(order[i]) ELSE <<>>])

\* the orders in which the discoverer may yield the same files
Orders(fs) == {o \in FileSeqs(Len(fs)) : Len(o) = Len(fs) /\ Range(o) = Range(fs)}

\* C5 (fails on the code): the written outputs of a completed run are those
\* of a run over the same tree and changeset in which the files are
\* discovered in any other order.
Reproducibility ==
    Done =>
        \A o \in Orders(files) :
            /\ outFull = write_json(RunFull(o), args.jsonl)
            /\ outDelta = write_json(RunDelta(o, changed), args.jsonl)

IdOf(obj) == FactGet(obj, "id")

\* C6: in every written output, in either encoding, the ids of the objects
\* are non-decreasing in lexicographic order.
SortInvariant ==
    \A out \in Outputs :
        out.written =>
            \A i \in 1..(Len(out.objs) - 1) :
                ~StrLess(IdOf(out.objs[i + 1]), IdOf(out.objs[i]))

\* a completed run whose lists were not collected in id order: the
\* writer reordered Full and Delta, which holds several facts
SortInvariantWitness ==
    /\ Done
    /\ \E i \in 1..(Len(full) - 1) : StrLess(IdOf(full[i + 1]), IdOf(full[i]))
    /\ \E i \in 1..(Len(delta) - 1) : StrLess(IdOf(delta[i + 1]), IdOf(delta[i]))
    /\ Len(outFull.objs) = Len(full)
    /\ Len(outDelta.objs) = Len(delta)

\* C7 (fails on the code): pkg/mod.py under the scanned root, containing
\* def test_foo(): pass, yields a symbol fact and a test_case fact whose
\* qualified name is pkg.mod.test_foo.
QualifiedNaming ==
    (Done /\ PkgModPy \in Range(files)) =>
        \A kind \in {"symbol", "test_case"} :
            \E j \in DOMAIN full :
                /\ FactGet(full[j], "kind") = kind
                /\ FactGet(full[j], "symbol") = "pkg.mod.test_foo"

\* C8 (fails on the code): every object of a written output has its keys
\* in sorted order, in either encoding.
KeyOrdering ==
    \A out \in Outputs :
        out.written =>
            \A k \in DOMAIN out.objs :
                \A i \in 1..(Len(out.objs[k]) - 1) :
                    KeyRank(out.objs[k][i][1]) < KeyRank(out.objs[k][i + 1][1])

RECURSIVE IsUnder(_, _, _)
\* m is the node or one of its descendants
IsUnder(tree, m, node) ==
    \/ m = node
    \/ tree[m].parent # 0 /\ IsUnder(tree, tree[m].parent, node)

Subtree(tree, node) == {m \in DOMAIN tree : IsUnder(tree, m, node)}

BranchingSet(lang_id) ==
    IF lang_id \in DOMAIN BRANCHING_TYPES THEN BRANCHING_TYPES[lang_id] ELSE {}

\* C9: cyclomatic visits no node twice, so the loop ends within as many
\* iterations as the subtree has nodes; when it returns, every node of the
\* subtree was visited exactly once, no other node was, and the score is 1
\* plus the number of nodes of the subtree whose kind is in the Branching
\* Set of the language: at least 1, and 1 for a language that has none.
CyclomaticCount ==
    /\ \A n \in DOMAIN cyc.visits : cyc.visits[n] <= 1
    /\ cyc.phase = "returned" =>
          /\ \A n \in DOMAIN cyc.tree :
                cyc.visits[n] = IF n \in Subtree(cyc.tree, cyc.node) THEN 1 ELSE 0
          /\ cyc.score =
                1 + Cardinality({n \in Subtree(cyc.tree, cyc.node) :
                                    cyc.tree[n].type \in BranchingSet(cyc.lang)})
          /\ cyc.score >= 1
          /\ cyc.lang \notin DOMAIN BRANCHING_TYPES => cyc.score = 1

\* a returned run over a subtree of three nodes, some branching and some
\* not, one of them below the root's child
CyclomaticWitness ==
    /\ cyc.phase = "returned"
    /\ Cardinality(Subtree(cyc.tree, cyc.node)) = 3
    /\ cyc.tree[3].parent = 2
    /\ cyc.score = 2
    /\ cyc.tree[3].type = "with_statement"
    /\ cyc.lang = "python"

\* C10 (fails on the code): the engine of a language is built at most once
\* in a run, and all the files of a language are parsed with one instance.
ParserBuiltOnce ==
    /\ \A l \in Langs : built[l] <= 1
    /\ \A i, j \in DOMAIN fut :
          (LangOf(files[i]) = LangOf(files[j]) /\ fut[i].parser # 0 /\ fut[j].parser # 0)
             => fut[i].parser = fut[j].parser

====
